---- MODULE Spec2Model ----
(***************************************************************************)
(* Cosmic Radiation Risk Calculator (src/app.py), a Streamlit script.      *)
(*                                                                         *)
(* Streamlit executes the script top to bottom once per session start and  *)
(* again after every widget interaction.  The model follows one session:   *)
(* pc is the section of the script that runs next, the other variables are *)
(* the script's module-level names, the widget state and the entry that    *)
(* st.cache_data keeps for get_live_flux.                                  *)
(*                                                                         *)
(* Python floats are modelled as exact rationals <<numerator, denominator>>*)
(* in lowest terms (denominator > 0); floating-point rounding, overflow to *)
(* inf and NaN are outside the model.                                      *)
(***************************************************************************)
EXTENDS Integers, Sequences, FiniteSets, TLC

VARIABLES
    pc,              \* section of the script that runs next
    err,             \* exception that stopped the run, "none" otherwise
    mission_days,    \* app.py:29
    SHIELD_FACTORS,  \* app.py:33  (dict: name -> factor)
    material_names,  \* app.py:59
    material,        \* app.py:60
    cache,           \* st.cache_data entry of get_live_flux, app.py:65
    wire,            \* history: how the latest requests.get ended, app.py:69
    proton_flux,     \* app.py:77-79
    banner,          \* st.warning / st.success, app.py:80-82
    BASE_DOSE_RATE,  \* app.py:88
    attenuation,     \* app.py:89
    daily_dose,      \* app.py:90
    total_dose,      \* app.py:91
    risk_percent,    \* app.py:92
    metrics,         \* the three st.metric cells, app.py:95-97
    days_axis,       \* app.py:104
    fig_sf,          \* app.py:105-118
    dose_curve,      \* app.py:124-125
    fig_td,          \* app.py:127-137
    csv_df           \* app.py:143-146

vars ==
    << pc, err, mission_days, SHIELD_FACTORS, material_names, material, cache,
       wire, proton_flux, banner, BASE_DOSE_RATE, attenuation, daily_dose,
       total_dose, risk_percent, metrics, days_axis, fig_sf, dose_curve,
       fig_td, csv_df >>

----------------------------------------------------------------------------
(* Exact rational arithmetic standing for Python float arithmetic.          *)

Abs(n) ==
    IF n < 0 THEN -n ELSE n

RECURSIVE GCD(_, _)
GCD(a, b) ==
    IF b = 0 THEN a ELSE GCD(b, a % b)

\* The rational n/d (d # 0) in lowest terms with a positive denominator.
R(n, d) ==
    LET s == IF d < 0 THEN -1 ELSE 1
        g == GCD(Abs(n), Abs(d))
    IN  << (s * n) \div g, (s * d) \div g >>

\* A name that has not been assigned in the current run.
Unset ==
    << 0, 0 >>

FromInt(k) ==
    << k, 1 >>

\* a * b; the common factors are cancelled before multiplying, so that the
\* intermediate products stay as small as the result.
Mul(a, b) ==
    LET g1 == GCD(Abs(a[1]), b[2])
        g2 == GCD(Abs(b[1]), a[2])
    IN  IF a[1] = 0 \/ b[1] = 0 THEN << 0, 1 >>
        ELSE << (a[1] \div g1) * (b[1] \div g2), (a[2] \div g2) * (b[2] \div g1) >>

\* a / b for b # 0 (Python raises ZeroDivisionError for b = 0).
DivF(a, b) ==
    Mul(a, R(b[2], b[1]))

IsZero(a) ==
    a[1] = 0

Lt(a, b) ==
    a[1] * b[2] < b[1] * a[2]

Leq(a, b) ==
    a[1] * b[2] <= b[1] * a[2]

\* int(x): truncation toward zero, the cast numpy applies when a float is
\* stored into an integer array.
Trunc(a) ==
    IF a[1] >= 0 THEN a[1] \div a[2] ELSE -((-a[1]) \div a[2])

\* floor(x)
Floor(a) ==
    a[1] \div a[2]

Range(s) ==
    { s[i] : i \in 1..Len(s) }

----------------------------------------------------------------------------
(* 2. User inputs, app.py:28-60                                             *)

MAX_DAYS ==
    1000

\* The dict literal with one key mistyped as another key of the literal:
\* Python keeps a single entry for the two items.
SHIELD_FACTORS_ITEMS_DuplicateKey ==
    << << "None",                        R(100, 100) >>,
       << "Liquid Hydrogen",             R(30, 100) >>,
       << "Lithium Hydride (LiH)",       R(35, 100) >>,
       << "Liquid Methane",              R(38, 100) >>,
       << "Water",                       R(40, 100) >>,
       << "Polyethylene",                R(50, 100) >>,
       << "B-PEI (Boron-PEI 20 wt %)",   R(50, 100) >>,
       << "B-PEI (15 wt %)",             R(51, 100) >>,
       << "B-PEI (10 wt %)",             R(53, 100) >>,
       << "B-PEI (5 wt %)",              R(55, 100) >>,
       << "PTFE (Teflon)",               R(60, 100) >>,
       << "Polyetherimide",              R(60, 100) >>,
       << "B-Polysulfone (10 wt %)",     R(60, 100) >>,
       << "B-Polyimide (10 wt %)",       R(62, 100) >>,
       << "Polysulfone",                 R(65, 100) >>,
       << "Aluminum",                    R(70, 100) >>,
       << "Polyetherimide",              R(70, 100) >>,
       << "Pure Epoxy",                  R(70, 100) >>,
       << "Regolith/Epoxy Composite",    R(72, 100) >>,
       << "Lunar Regolith",              R(75, 100) >>,
       << "Magnesium",                   R(78, 100) >>,
       << "Iron",                        R(80, 100) >>,
       << "Copper",                      R(85, 100) >>,
       << "Lead",                        R(95, 100) >> >>

\* The items of the SHIELD_FACTORS dict literal, in source order.
SHIELD_FACTORS_ITEMS ==
    << << "None",                        R(100, 100) >>,
       << "Liquid Hydrogen",             R(30, 100) >>,
       << "Lithium Hydride (LiH)",       R(35, 100) >>,
       << "Liquid Methane",              R(38, 100) >>,
       << "Water",                       R(40, 100) >>,
       << "Polyethylene",                R(50, 100) >>,
       << "B-PEI (Boron-PEI 20 wt %)",   R(50, 100) >>,
       << "B-PEI (15 wt %)",             R(51, 100) >>,
       << "B-PEI (10 wt %)",             R(53, 100) >>,
       << "B-PEI (5 wt %)",              R(55, 100) >>,
       << "PTFE (Teflon)",               R(60, 100) >>,
       << "Polyetherimide",              R(60, 100) >>,
       << "B-Polysulfone (10 wt %)",     R(60, 100) >>,
       << "B-Polyimide (10 wt %)",       R(62, 100) >>,
       << "Polysulfone",                 R(65, 100) >>,
       << "Aluminum",                    R(70, 100) >>,
       << "Polyimide (Kapton)",          R(70, 100) >>,
       << "Pure Epoxy",                  R(70, 100) >>,
       << "Regolith/Epoxy Composite",    R(72, 100) >>,
       << "Lunar Regolith",              R(75, 100) >>,
       << "Magnesium",                   R(78, 100) >>,
       << "Iron",                        R(80, 100) >>,
       << "Copper",                      R(85, 100) >>,
       << "Lead",                        R(95, 100) >> >>

\* A Python dict built from a sequence of (key, value) items: a later item
\* with the same key replaces the earlier one.
DictOf(items) ==
    [ k \in { items[i][1] : i \in 1..Len(items) } |->
        LET last == CHOOSE i \in 1..Len(items) :
                        /\ items[i][1] = k
                        /\ \A j \in (i + 1)..Len(items) : items[j][1] # k
        IN  items[last][2] ]

RECURSIVE KeysFrom(_, _, _)
KeysFrom(items, i, seen) ==
    IF i > Len(items) THEN << >>
    ELSE IF items[i][1] \in seen THEN KeysFrom(items, i + 1, seen)
    ELSE << items[i][1] >> \o KeysFrom(items, i + 1, seen \union { items[i][1] })

\* list(d.keys()): the keys in insertion order.
DictKeys(items) ==
    KeysFrom(items, 1, {})

\* Day values a user may try to give the slider; the widget decides which of
\* them it can return.
UserDays ==
    { 0, 1, 180, 1000, 1001 }

\* Material names a user may try to give the selectbox.
UserMaterials ==
    { SHIELD_FACTORS_ITEMS[i][1] : i \in 1..Len(SHIELD_FACTORS_ITEMS) }
        \union { "Unobtainium" }

\* st.slider(label, min_value, max_value, value): the values it can return.
Slider(min_value, max_value) ==
    { d \in UserDays : min_value <= d /\ d <= max_value }

\* A selectbox that also returns what the user typed (accept_new_options).
Selectbox_AcceptsNewOptions(options) ==
    UserMaterials

\* st.selectbox(label, options, index): the values it can return.
Selectbox(options) ==
    { m \in UserMaterials : m \in Range(options) }

\* The names of one run that are not assigned yet.
FreshRun ==
    /\ err' = "none"
    /\ proton_flux' = Unset
    /\ banner' = "none"
    /\ BASE_DOSE_RATE' = Unset
    /\ attenuation' = Unset
    /\ daily_dose' = Unset
    /\ total_dose' = Unset
    /\ risk_percent' = Unset
    /\ metrics' = << >>
    /\ days_axis' = << >>
    /\ fig_sf' = << >>
    /\ dose_curve' = << >>
    /\ fig_td' = << >>
    /\ csv_df' = << >>

\* app.py:28-60 with the widgets returning d and m.
UserInputs(d, m) ==
    /\ mission_days' = d
    /\ SHIELD_FACTORS' = DictOf(SHIELD_FACTORS_ITEMS)
    /\ material_names' = DictKeys(SHIELD_FACTORS_ITEMS)
    /\ material' = m
    /\ pc' = "flux"

\* A widget interaction (or a browser reload) after a run has ended: Streamlit
\* runs the script again from the top in a fresh namespace.
Rerun ==
    /\ pc \in { "done", "error" }
    /\ \E d \in Slider(1, MAX_DAYS) :
       \E m \in Selectbox(DictKeys(SHIELD_FACTORS_ITEMS)) :
            UserInputs(d, m)
    /\ FreshRun
    /\ UNCHANGED << cache, wire >>

----------------------------------------------------------------------------
(* 3. Real-time proton flux, app.py:65-82                                   *)

TTL_SECONDS ==
    600

\* Seconds by which the session clock advances between two runs.
ClockStep ==
    300

\* Python None, and a float return value.
None ==
    [ none |-> TRUE, v |-> Unset ]

Some(x) ==
    [ none |-> FALSE, v |-> x ]

\* The last element's "flux" member: a JSON number or numeric string
\* ("number"), a string float() rejects ("text"), null, or no such key.
Entry(kind, x) ==
    [ flux_kind |-> kind, flux |-> x ]

NotJson ==
    [ json |-> FALSE, data |-> << >> ]

Json(data) ==
    [ json |-> TRUE, data |-> data ]

\* What requests.get(url, timeout=10) ends with: an exception raised by
\* requests (exc), or a response with a status code and a body.
Exchange(exc, status, body) ==
    [ exc |-> exc, status |-> status, body |-> body ]

FluxSamples ==
    { R(-100, 1), R(0, 1), R(100, 1), R(625, 2) }

Responses ==
    { Exchange("Timeout", 0, NotJson),
      Exchange("ConnectionError", 0, NotJson),
      Exchange("none", 503, NotJson),
      Exchange("none", 404, Json(<< Entry("number", R(250, 1)) >>)),
      Exchange("none", 304, NotJson),
      Exchange("none", 200, NotJson),
      Exchange("none", 200, Json(<< >>)),
      Exchange("none", 200, Json(<< Entry("missing", Unset) >>)),
      Exchange("none", 200, Json(<< Entry("text", Unset) >>)),
      Exchange("none", 200, Json(<< Entry("number", R(7, 1)), Entry("null", Unset) >>)) }
    \union
    { Exchange("none", 200, Json(<< Entry("number", R(7, 1)), Entry("number", x) >>)) :
        x \in FluxSamples }

\* What happened on the wire, told without the code: the exchange failed when
\* requests raised (timeout, no connection), the status is not 2xx, or the
\* body is not a JSON list whose last element carries a numeric "flux".
ExchangeFailed(r) ==
    \/ r.exc # "none"
    \/ r.status \notin 200..299
    \/ ~r.body.json
    \/ r.body.data = << >>
    \/ r.body.data[Len(r.body.data)].flux_kind # "number"

ExchangeValue(r) ==
    IF ExchangeFailed(r) THEN Unset ELSE r.body.data[Len(r.body.data)].flux

\* get_live_flux without resp.raise_for_status().
get_live_flux_NoStatusCheck(r) ==
    IF r.exc # "none" THEN None
    ELSE IF ~r.body.json THEN None
    ELSE IF Len(r.body.data) = 0 THEN None
    ELSE LET last == r.body.data[Len(r.body.data)]
         IN  IF last.flux_kind # "number" THEN None
             ELSE Some(last.flux)

\* The body of get_live_flux, app.py:67-75, for the exchange r.
get_live_flux(r) ==
    IF r.exc # "none" THEN None                              \* requests.get raised
    ELSE IF 400 <= r.status /\ r.status < 600 THEN None      \* raise_for_status()
    ELSE IF ~r.body.json THEN None                           \* resp.json() raised
    ELSE IF Len(r.body.data) = 0 THEN None                   \* data[-1]: IndexError
    ELSE LET last == r.body.data[Len(r.body.data)]
         IN  IF last.flux_kind # "number" THEN None          \* KeyError, ValueError, TypeError
             ELSE Some(last.flux)

\* app.py:77-82: the flux the dose model uses and the banner shown.
ResolveFlux(result) ==
    IF result.none
    THEN [ flux |-> R(100, 1), banner |-> "warning" ]
    ELSE [ flux |-> result.v, banner |-> "success" ]

\* st.cache_data(ttl=600): the entry can be served while it is younger than ttl.
CacheValid(c) ==
    c.present /\ c.age < TTL_SECONDS

FluxAssigned(result) ==
    /\ proton_flux' = ResolveFlux(result).flux
    /\ banner' = ResolveFlux(result).banner
    /\ pc' = "dose"
    /\ UNCHANGED << err, mission_days, SHIELD_FACTORS, material_names, material,
                    BASE_DOSE_RATE, attenuation, daily_dose, total_dose,
                    risk_percent, metrics, days_axis, fig_sf, dose_curve,
                    fig_td, csv_df >>

\* get_live_flux() served from the cache, then app.py:78-82.
FluxCacheHit ==
    /\ pc = "flux"
    /\ CacheValid(cache)
    /\ FluxAssigned(cache.value)
    /\ UNCHANGED << cache, wire >>

\* get_live_flux() on a cache miss: the request is sent, app.py:69.
RequestsGet ==
    /\ pc = "flux"
    /\ ~CacheValid(cache)
    /\ pc' = "await"
    /\ UNCHANGED << err, mission_days, SHIELD_FACTORS, material_names, material,
                    cache, wire, proton_flux, banner, BASE_DOSE_RATE, attenuation,
                    daily_dose, total_dose, risk_percent, metrics, days_axis,
                    fig_sf, dose_curve, fig_td, csv_df >>

\* requests.get returns or raises (at the latest when the timeout expires); the
\* rest of get_live_flux runs, its result is cached, then app.py:78-82.
HttpExchange ==
    /\ pc = "await"
    /\ \E r \in Responses :
        /\ wire' = [ failed |-> ExchangeFailed(r), value |-> ExchangeValue(r) ]
        /\ cache' = [ present |-> TRUE, value |-> get_live_flux(r), age |-> 0 ]
        /\ FluxAssigned(get_live_flux(r))

\* Time passes between two runs of the script.
Tick ==
    /\ pc \in { "done", "error" }
    /\ CacheValid(cache)
    /\ cache' = [ cache EXCEPT !.age = @ + ClockStep ]
    /\ UNCHANGED << pc, err, mission_days, SHIELD_FACTORS, material_names,
                    material, wire, proton_flux, banner, BASE_DOSE_RATE,
                    attenuation, daily_dose, total_dose, risk_percent, metrics,
                    days_axis, fig_sf, dose_curve, fig_td, csv_df >>

----------------------------------------------------------------------------
(* 4. Dose model, app.py:88-97                                              *)

BaseDoseRate(flux) ==
    Mul(flux, R(5, 100000))

\* The daily dose without the shielding factor applied.
DailyDose_Unshielded(base, att) ==
    base

DailyDose(base, att) ==
    Mul(base, att)

TotalDose(daily, days) ==
    Mul(daily, FromInt(days))

RiskPercent(total) ==
    Mul(DivF(total, FromInt(1000)), FromInt(5))

\* f"{x: .2f}": the number of hundredths printed.  On an exact tie the binary
\* value of the float decides, so both neighbours are possible.
Format2f(x) ==
    LET h == Mul(x, FromInt(100))
        lo == Floor(h)
    IN  { k \in { lo, lo + 1 } :
            /\ Leq(R(2 * k - 1, 2), h)
            /\ Leq(h, R(2 * k + 1, 2)) }

DoseModel ==
    /\ pc = "dose"
    /\ BASE_DOSE_RATE' = BaseDoseRate(proton_flux)
    /\ IF material \notin DOMAIN SHIELD_FACTORS
       THEN /\ err' = "KeyError"
            /\ pc' = "error"
            /\ UNCHANGED << attenuation, daily_dose, total_dose, risk_percent,
                            metrics >>
       ELSE /\ attenuation' = SHIELD_FACTORS[material]
            /\ daily_dose' = DailyDose(BASE_DOSE_RATE', attenuation')
            /\ total_dose' = TotalDose(daily_dose', mission_days)
            /\ risk_percent' = RiskPercent(total_dose')
            /\ \E t \in Format2f(total_dose') :
               \E k \in Format2f(risk_percent') :
                    metrics' = [ days |-> mission_days, total |-> t, risk |-> k ]
            /\ pc' = "plot_sf"
            /\ err' = err
    /\ UNCHANGED << mission_days, SHIELD_FACTORS, material_names, material,
                    cache, wire, proton_flux, banner, days_axis, fig_sf,
                    dose_curve, fig_td, csv_df >>

----------------------------------------------------------------------------
(* 5. Plot: shielding factor vs. mission duration, app.py:104-119           *)
(* fig_sf holds one trace per catalog entry: all share x = days_axis, and   *)
(* fig_sf.y[mat] is the y array (int64) of the trace named mat.             *)

\* np.arange(start, stop): the integers start .. stop - 1 (dtype int64).
Arange(start, stop) ==
    [ i \in 1..(stop - start) |-> start + i - 1 ]

\* np.full_like(a, fill_value): an array of a's shape and a's dtype.  a is an
\* integer array here, so the fill value is cast to an integer.
FullLike(a, fill_value) ==
    LET cast == Trunc(fill_value)
    IN  [ i \in 1..Len(a) |-> cast ]

PlotShieldingFactor ==
    /\ pc = "plot_sf"
    /\ days_axis' = Arange(1, MAX_DAYS + 1)
    /\ fig_sf' =
            [ x |-> days_axis',
              y |-> [ mat \in DOMAIN SHIELD_FACTORS |->
                        FullLike(days_axis', SHIELD_FACTORS[mat]) ],
              vline |-> mission_days ]
    /\ pc' = "plot_td"
    /\ UNCHANGED << err, mission_days, SHIELD_FACTORS, material_names, material,
                    cache, wire, proton_flux, banner, BASE_DOSE_RATE, attenuation,
                    daily_dose, total_dose, risk_percent, metrics, dose_curve,
                    fig_td, csv_df >>

----------------------------------------------------------------------------
(* 6. Plot: total dose vs. mission duration, app.py:124-138                 *)
(* The line trace of fig_td and the columns of csv_df are the arrays        *)
(* days_axis and dose_curve themselves; the model names them instead of     *)
(* copying them.                                                            *)

\* The curve scaled as app.py:124 scales it: daily_dose / attenuation, that
\* is, without the shielding factor.
DoseCurve_Unshielded(base, att, axis) ==
    [ i \in 1..Len(axis) |-> Mul(base, FromInt(axis[i])) ]

\* The curve without the multiplication by days_axis: the daily dose at
\* every day.
DoseCurve_Flat(base, att, axis) ==
    LET scalar == Mul(base, att)
    IN  [ i \in 1..Len(axis) |-> scalar ]

\* app.py:125: (BASE_DOSE_RATE * attenuation) * days_axis, element by element.
DoseCurve(base, att, axis) ==
    LET scalar == Mul(base, att)
    IN  [ i \in 1..Len(axis) |-> Mul(scalar, FromInt(axis[i])) ]

PlotTotalDose ==
    /\ pc = "plot_td"
    /\ IF IsZero(attenuation)
       THEN \* app.py:124 divides daily_dose by attenuation; the array it
            \* builds is replaced at app.py:125 and never read.
            /\ err' = "ZeroDivisionError"
            /\ pc' = "error"
            /\ UNCHANGED << dose_curve, fig_td >>
       ELSE /\ dose_curve' = DoseCurve(BASE_DOSE_RATE, attenuation, days_axis)
            /\ fig_td' =
                    [ line |-> [ x |-> "days_axis", y |-> "dose_curve", name |-> material ],
                      marker |-> [ x |-> << mission_days >>, y |-> << total_dose >> ] ]
            /\ pc' = "csv"
            /\ err' = err
    /\ UNCHANGED << mission_days, SHIELD_FACTORS, material_names, material,
                    cache, wire, proton_flux, banner, BASE_DOSE_RATE, attenuation,
                    daily_dose, total_dose, risk_percent, metrics, days_axis,
                    fig_sf, csv_df >>

----------------------------------------------------------------------------
(* 7. Data download, app.py:143-150                                         *)

DataDownload ==
    /\ pc = "csv"
    /\ csv_df' = [ Days |-> "days_axis", Dose |-> "dose_curve",
                   dose_column_material |-> material, rows |-> Len(days_axis) ]
    /\ pc' = "done"
    /\ UNCHANGED << err, mission_days, SHIELD_FACTORS, material_names, material,
                    cache, wire, proton_flux, banner, BASE_DOSE_RATE, attenuation,
                    daily_dose, total_dose, risk_percent, metrics, days_axis,
                    fig_sf, dose_curve, fig_td >>

----------------------------------------------------------------------------
(* The session                                                              *)

\* The first run has executed app.py:11-60 with the widgets at their defaults
\* (slider value 180, selectbox index of "Polyethylene"); nothing is cached.
Init ==
    /\ pc = "flux"
    /\ err = "none"
    /\ mission_days = 180
    /\ SHIELD_FACTORS = DictOf(SHIELD_FACTORS_ITEMS)
    /\ material_names = DictKeys(SHIELD_FACTORS_ITEMS)
    /\ material = "Polyethylene"
    /\ cache = [ present |-> FALSE, value |-> None, age |-> 0 ]
    /\ wire = [ failed |-> FALSE, value |-> Unset ]
    /\ proton_flux = Unset
    /\ banner = "none"
    /\ BASE_DOSE_RATE = Unset
    /\ attenuation = Unset
    /\ daily_dose = Unset
    /\ total_dose = Unset
    /\ risk_percent = Unset
    /\ metrics = << >>
    /\ days_axis = << >>
    /\ fig_sf = << >>
    /\ dose_curve = << >>
    /\ fig_td = << >>
    /\ csv_df = << >>

Next ==
    \/ Rerun
    \/ FluxCacheHit
    \/ RequestsGet
    \/ HttpExchange
    \/ Tick
    \/ DoseModel
    \/ PlotShieldingFactor
    \/ PlotTotalDose
    \/ DataDownload

Spec ==
    Init /\ [][Next]_vars

----------------------------------------------------------------------------
(* Properties                                                               *)

\* The run has computed the dose metrics (app.py:88-97).
AfterDose ==
    pc \in { "plot_sf", "plot_td", "csv", "done" }

\* The run has built the shielding-factor figure (app.py:104-119).
AfterPlotSF ==
    pc \in { "plot_td", "csv", "done" }

\* The run has built the dose curve and its figure (app.py:124-138).
AfterPlotTD ==
    pc \in { "csv", "done" }

\* The run has resolved the proton flux (app.py:77-82).
AfterFlux ==
    pc \notin { "flux", "await" }

\* The factor the catalog of the source gives for the name m.
CatalogFactor(m) ==
    LET i == CHOOSE j \in 1..Len(SHIELD_FACTORS_ITEMS) : SHIELD_FACTORS_ITEMS[j][1] = m
    IN  SHIELD_FACTORS_ITEMS[i][2]

\* The total dose the dose model computes for a flux, a factor and a duration.
ModelTotalDose(flux, factor, days) ==
    TotalDose(DailyDose(BaseDoseRate(flux), factor), days)

\* C1: for every flux >= 0, every catalog material with factor f and every
\* mission_days, daily_dose = flux * 5.0e-5 * f, total_dose = daily_dose *
\* mission_days and risk_percent = (total_dose / 1000) * 5.0; flux 100,
\* Polyethylene, 180 days give 0.0025 mSv, 0.45 mSv and 0.00225 %.
\* (5.0e-5 = 1/20000, so daily_dose * 20000 = flux * f; and
\*  (total / 1000) * 5 = total / 200.)
C1_DoseFormulas ==
    (AfterDose /\ Leq(FromInt(0), proton_flux)) =>
        /\ Mul(daily_dose, FromInt(20000)) = Mul(proton_flux, CatalogFactor(material))
        /\ DivF(total_dose, FromInt(mission_days)) = daily_dose
        /\ Mul(risk_percent, FromInt(200)) = total_dose
        /\ (proton_flux = R(100, 1) /\ material = "Polyethylene" /\ mission_days = 180) =>
                /\ daily_dose = R(25, 10000)
                /\ total_dose = R(45, 100)
                /\ risk_percent = R(225, 100000)

C1_Witness ==
    /\ AfterDose
    /\ proton_flux = R(100, 1)
    /\ material = "Polyethylene"
    /\ mission_days = 180
    /\ total_dose = R(45, 100)

\* C2: for the selected material and the current flux, the dose curve's point at
\* every day d in 1..MAX_DAYS equals the total dose the dose model computes for
\* duration d; the point at d = mission_days equals total_dose, which is the
\* value of the "Current selection" marker and the value the metric prints
\* (to two decimals).
C2_CurveMatchesDoseModel ==
    AfterPlotTD =>
        /\ Len(dose_curve) = MAX_DAYS
        /\ LET daily == DailyDose(BaseDoseRate(proton_flux), CatalogFactor(material))
           IN  \A d \in 1..MAX_DAYS : dose_curve[d] = TotalDose(daily, d)
        /\ dose_curve[mission_days] = total_dose
        /\ fig_td.marker.x = << mission_days >>
        /\ fig_td.marker.y = << dose_curve[mission_days] >>
        /\ metrics.total \in Format2f(dose_curve[mission_days])

C2_Witness ==
    /\ AfterPlotTD
    /\ material = "Lead"
    /\ mission_days = 180
    /\ proton_flux = R(625, 2)
    /\ dose_curve[180] = total_dose
    /\ ~IsZero(total_dose)

\* C3: the attenuation curve built for each catalog material has exactly
\* MAX_DAYS points with day indices 1..MAX_DAYS, and the value at every point is
\* that material's catalog attenuation factor.
C3_AttenuationCurves ==
    AfterPlotSF =>
        /\ fig_sf.x = [ d \in 1..MAX_DAYS |-> d ]
        /\ \A mat \in DOMAIN SHIELD_FACTORS :
                LET factor == CatalogFactor(mat)
                IN  /\ Len(fig_sf.y[mat]) = MAX_DAYS
                    /\ \A d \in 1..MAX_DAYS : FromInt(fig_sf.y[mat][d]) = factor

\* The part of C3 the code keeps: one trace per catalog entry, MAX_DAYS points
\* each, over the days 1..MAX_DAYS, the same value at every day.
C3_CurveShape ==
    AfterPlotSF =>
        /\ fig_sf.x = [ d \in 1..MAX_DAYS |-> d ]
        /\ \A mat \in DOMAIN SHIELD_FACTORS :
                /\ Len(fig_sf.y[mat]) = MAX_DAYS
                /\ \A d \in 1..MAX_DAYS : fig_sf.y[mat][d] = fig_sf.y[mat][1]

\* C4: for a fixed material and a flux > 0 the dose curve is strictly increasing
\* in day over 1..MAX_DAYS, and it is non-decreasing for any flux >= 0.
C4_DoseCurveMonotone ==
    AfterPlotTD =>
        /\ Lt(FromInt(0), proton_flux) =>
                \A d \in 1..(MAX_DAYS - 1) : Lt(dose_curve[d], dose_curve[d + 1])
        /\ Leq(FromInt(0), proton_flux) =>
                \A d \in 1..(MAX_DAYS - 1) : Leq(dose_curve[d], dose_curve[d + 1])

C4_Witness ==
    /\ AfterPlotTD
    /\ Lt(FromInt(0), proton_flux)
    /\ material = "Liquid Hydrogen"
    /\ Lt(dose_curve[1], dose_curve[2])
    /\ Lt(dose_curve[MAX_DAYS - 1], dose_curve[MAX_DAYS])

\* C5: an out-of-domain input to the dose computation (here: a negative flux
\* returned by the live fetch) makes the run fail with an InvalidParameter
\* error; no dose result or curve is produced from it.
C5_NegativeFluxRejected ==
    (AfterFlux /\ Lt(proton_flux, FromInt(0))) =>
        /\ pc \in { "dose", "error" }
        /\ pc = "error" => err = "InvalidParameter"
        /\ total_dose = Unset
        /\ dose_curve = << >>

C8_CatalogState ==
    /\ Cardinality(DOMAIN SHIELD_FACTORS) = 24
    /\ Len(material_names) = 24
    /\ Range(material_names) = DOMAIN SHIELD_FACTORS
    /\ \A m \in DOMAIN SHIELD_FACTORS :
            /\ Lt(FromInt(0), SHIELD_FACTORS[m])
            /\ Leq(SHIELD_FACTORS[m], FromInt(1))
    /\ "None" \in DOMAIN SHIELD_FACTORS
    /\ SHIELD_FACTORS["None"] = FromInt(1)
    /\ AfterDose => attenuation = SHIELD_FACTORS[material]
    /\ AfterPlotSF => DOMAIN fig_sf.y = DOMAIN SHIELD_FACTORS

C8_CatalogFixed ==
    [][ /\ C8_CatalogState
        /\ C8_CatalogState'
        /\ SHIELD_FACTORS' = SHIELD_FACTORS
        /\ material_names' = material_names ]_vars

C8_Witness ==
    /\ pc = "done"
    /\ cache.age > 0
    /\ material = "Water"
    /\ attenuation = R(40, 100)
    /\ "Water" \in DOMAIN fig_sf.y

\* C9: for equal flux and equal day, the dose computed for material "None" is
\* greater than or equal to the dose computed for every other catalog
\* material, and equals the unshielded baseline flux * 5.0e-5 * days.
C9_NoneIsMaximum ==
    AfterDose =>
        /\ \A m \in DOMAIN SHIELD_FACTORS :
                Leq(ModelTotalDose(proton_flux, SHIELD_FACTORS[m], mission_days),
                    ModelTotalDose(proton_flux, SHIELD_FACTORS["None"], mission_days))
        /\ Mul(ModelTotalDose(proton_flux, SHIELD_FACTORS["None"], mission_days),
               FromInt(20000))
                = Mul(proton_flux, FromInt(mission_days))
        /\ total_dose = ModelTotalDose(proton_flux, SHIELD_FACTORS[material], mission_days)

\* C10: on every run, for any choice the widgets allow, the selected material is
\* a key of SHIELD_FACTORS and 1 <= mission_days <= MAX_DAYS, so the catalog
\* lookup never fails and the division by the selected attenuation factor never
\* divides by zero.
C10_WidgetsKeepInputsValid ==
    /\ material \in DOMAIN SHIELD_FACTORS
    /\ 1 <= mission_days
    /\ mission_days <= MAX_DAYS
    /\ ~IsZero(SHIELD_FACTORS[material])
    /\ err = "none"
    /\ pc # "error"

C10_Witness ==
    /\ pc = "done"
    /\ material = "Lead"
    /\ mission_days = 1000
    /\ err = "none"
    /\ Len(dose_curve) = MAX_DAYS

====
